---- MODULE Spec2Model ----
(***************************************************************************)
(* waybar-crypto-ticker: the price store and its segment builder           *)
(* (src/ticker.rs), the streaming client (src/websocket.rs) and the draw   *)
(* function and animation timer of the scrolling compositor (src/main.rs). *)
(*                                                                         *)
(* Prices are f64 in the source.  Here a price is an integer number of     *)
(* micro-units (10^-6 of the quote currency), lengths are integer layout   *)
(* units, and the arithmetic on them is exact.                             *)
(***************************************************************************)
EXTENDS Integers, Sequences, FiniteSets, TLC

VARIABLES
    coins,        \* TickerState.coins: the configured instruments, in order
    prices,       \* TickerState.prices: HashMap symbol -> CoinData
    segments,     \* TickerState.segments
    lock,         \* owner of the Mutex<TickerState>: "none", "client", "render"
    pc,           \* position of the streaming client in run / connect_and_stream
    inbound,      \* the item read.next() returned, while it is being matched
    batch,        \* entries still to apply under the lock held by the client
    lastSegments, \* last_segments of the draw function
    scrollOffset, \* scroll_offset
    cachedWidth,  \* cached_width
    speed,        \* config.animation.scroll_speed / fps: the advance per tick
    frame,        \* what the draw function did, if it ran since the last tick
    trail,        \* history: client events since the last session ended
    ended,        \* history: how the last session ended ("" once an item is read)
    failures,     \* history: failures in a row (fetch, connect, send, read), capped
    preBatch,     \* history: prices and segments when the client took the lock
    failed,       \* history: the network operation that failed last ("" once one succeeds)
    snapshot,     \* history: segments at the renderer's last acquisition
    lastCall      \* history: the last direct call of update_price / set_open_price

vars == << coins, prices, segments, lock, pc, inbound, batch, lastSegments,
           scrollOffset, cachedWidth, speed, frame, trail, ended, failures,
           preBatch, failed, snapshot, lastCall >>

storeVars  == << coins, prices, segments, lastCall >>
clientVars == << lock, pc, inbound, batch, trail, ended, failures, preBatch, failed >>
renderVars == << lastSegments, scrollOffset, cachedWidth, speed, frame, snapshot >>

-----------------------------------------------------------------------------
(* Values *)

None == "None"

\* One unit of the quote currency, in micro-units.
One == 1000000

BTC  == "BTC/USD"
ETH  == "ETH/USD"
SOL  == "SOL/USD"
DOGE == "DOGE/USD"

\* Config::default_coins, first entries (symbol and icon; the name is unused).
DefaultCoins ==
    << [symbol |-> BTC, icon |-> "btc.svg"],
       [symbol |-> ETH, icon |-> "eth.svg"],
       [symbol |-> SOL, icon |-> "sol.svg"] >>

\* Bounds of the model
MaxFailures == 2
MaxBatch    == 2
MaxOffset   == 64

\* const SEPARATOR
SEPARATOR == "     ·     "

Up      == "Up"
Down    == "Down"
Neutral == "Neutral"

-----------------------------------------------------------------------------
(* src/ticker.rs *)

Abs(x) == IF x < 0 THEN -x ELSE x

\* n / d rounded to the nearest integer, ties to even (d > 0): what {:.N}
\* does to a value whose scaled form is n / d.
RoundDiv(n, d) ==
    LET a == Abs(n)
        q == a \div d
        r == a % d
        m == IF 2 * r > d \/ (2 * r = d /\ q % 2 = 1) THEN q + 1 ELSE q
    IN  IF n < 0 THEN -m ELSE m

\* Variant: the tiers start above their thresholds (> for >=).
format_price_strict(price) ==
    IF price > 1000 * One THEN [dec |-> 0, digits |-> RoundDiv(price, One)]
    ELSE IF price > One THEN [dec |-> 2, digits |-> RoundDiv(price, 10000)]
    ELSE IF 100 * price > One THEN [dec |-> 4, digits |-> RoundDiv(price, 100)]
    ELSE [dec |-> 6, digits |-> price]

\* TickerState::format_price: "$" and the price with 0, 2, 4 or 6 decimals.
\* The text is the pair (decimals, digits as an integer of 10^-decimals).
format_price(price) ==
    IF price >= 1000 * One THEN [dec |-> 0, digits |-> RoundDiv(price, One)]
    ELSE IF price >= One THEN [dec |-> 2, digits |-> RoundDiv(price, 10000)]
    ELSE IF 100 * price >= One THEN [dec |-> 4, digits |-> RoundDiv(price, 100)]
    ELSE [dec |-> 6, digits |-> price]

\* Variant: no dead zone, the sign of the change decides the direction.
get_change_no_dead_zone(p, symbol) ==
    IF symbol \in DOMAIN p /\ p[symbol].open_24h > 0
    THEN LET d == p[symbol].price - p[symbol].open_24h
             o == p[symbol].open_24h
             tenths == RoundDiv(1000 * d, o)
         IN  IF d > 0
             THEN << [sign |-> "+", tenths |-> tenths, arrow |-> "up"], Up >>
             ELSE IF d < 0
             THEN << [sign |-> "-", tenths |-> -tenths, arrow |-> "down"], Down >>
             ELSE << [sign |-> "", tenths |-> 0, arrow |-> ""], Neutral >>
    ELSE << [sign |-> "", tenths |-> 0, arrow |-> "--"], Neutral >>

\* TickerState::get_change: the change text and the direction.  change is
\* (price - open) / open * 100; change > 0.01 iff (price - open) * 10^4 > open.
\* The text is (sign shown, tenths of a percent after {:.1}, arrow); the
\* placeholder "--" has its own arrow value.
get_change(p, symbol) ==
    IF symbol \in DOMAIN p /\ p[symbol].open_24h > 0
    THEN LET d == p[symbol].price - p[symbol].open_24h
             o == p[symbol].open_24h
             tenths == RoundDiv(1000 * d, o)
         IN  IF d > o \div 10000
             THEN << [sign |-> "+", tenths |-> tenths, arrow |-> "up"], Up >>
             ELSE IF -d > o \div 10000
             THEN << [sign |-> "-", tenths |-> -tenths, arrow |-> "down"], Down >>
             ELSE << [sign |-> IF d < 0 THEN "-" ELSE "", tenths |-> Abs(tenths),
                      arrow |-> ""], Neutral >>
    ELSE << [sign |-> "", tenths |-> 0, arrow |-> "--"], Neutral >>

is_active(p, coin) == coin.symbol \in DOMAIN p /\ p[coin.symbol].price > 0

\* rebuild_segments, lines 104-106
active_count(cs, p) == Cardinality({i \in DOMAIN cs : is_active(p, cs[i])})

\* rebuild_segments, lines 116-120: the segment pushed for one instrument
coin_segment(p, coin) ==
    [text      |-> << format_price(p[coin.symbol].price), get_change(p, coin.symbol)[1] >>,
     direction |-> get_change(p, coin.symbol)[2],
     icon      |-> coin.icon]

\* rebuild_segments, lines 123-127
separator_segment == [text |-> << SEPARATOR >>, direction |-> Neutral, icon |-> None]

\* Variant: a separator only between two pushed segments, none after the last.
SeparatorBetween(cs, p, i) ==
    IF \E j \in (i + 1)..Len(cs) : is_active(p, cs[j])
    THEN << separator_segment >> ELSE << >>

\* rebuild_segments, lines 122-128: a separator follows every pushed segment
\* when more than one instrument is active.
SeparatorAfter(cs, p, i) ==
    IF active_count(cs, p) > 1 THEN << separator_segment >> ELSE << >>

\* rebuild_segments, lines 108-130: the loop over the configured coins
RECURSIVE rebuild_from(_, _, _)
rebuild_from(cs, p, i) ==
    IF i > Len(cs) THEN << >>
    ELSE IF cs[i].symbol \in DOMAIN p /\ ~(p[cs[i].symbol].price <= 0)
    THEN << coin_segment(p, cs[i]) >> \o SeparatorAfter(cs, p, i)
            \o rebuild_from(cs, p, i + 1)
    ELSE rebuild_from(cs, p, i + 1)

Reverse(q) == [i \in 1..Len(q) |-> q[Len(q) + 1 - i]]

\* Variant: the segments in the order opposite to the configured one.
rebuild_reversed(cs, p) == rebuild_from(Reverse(cs), p, 1)

\* Variant: a priced symbol that is not configured gets a segment too.
rebuild_with_unlisted(cs, p) ==
    LET unlisted == { s \in DOMAIN p :
                        p[s].price > 0 /\ \A i \in DOMAIN cs : cs[i].symbol # s }
    IN  IF unlisted = {} THEN rebuild_from(cs, p, 1)
        ELSE rebuild_from(cs, p, 1) \o
             << coin_segment(p, [symbol |-> CHOOSE s \in unlisted : TRUE,
                                 icon |-> "generic.svg"]) >>

rebuild_segments(cs, p) == rebuild_from(cs, p, 1)

\* Variant: the map is replaced by one that holds the written record alone.
Put_Alone(p, symbol, data) == [s \in {symbol} |-> data]

\* HashMap::insert / get_mut on the prices map
Put(p, symbol, data) ==
    [s \in DOMAIN p \cup {symbol} |-> IF s = symbol THEN data ELSE p[s]]

\* Variant: an existing record's reference follows the price it had before.
update_price_tracking(p, symbol, price) ==
    IF symbol \in DOMAIN p
    THEN Put(p, symbol, [price |-> price, open_24h |-> p[symbol].price])
    ELSE Put(p, symbol, [price |-> price, open_24h |-> price])

\* Variant: the two fields of the inserted CoinData are swapped.
update_price_swapped(p, symbol, price) ==
    IF symbol \in DOMAIN p
    THEN Put(p, symbol, [price |-> price, open_24h |-> p[symbol].open_24h])
    ELSE Put(p, symbol, [price |-> 0, open_24h |-> price])

\* Variant: a new symbol gets no reference (open_24h: 0.0) with its first price.
update_price_unseeded(p, symbol, price) ==
    IF symbol \in DOMAIN p
    THEN Put(p, symbol, [price |-> price, open_24h |-> p[symbol].open_24h])
    ELSE Put(p, symbol, [price |-> price, open_24h |-> 0])

\* TickerState::update_price: the prices map after the call
update_price(p, symbol, price) ==
    IF symbol \in DOMAIN p
    THEN Put(p, symbol, [price |-> price, open_24h |-> p[symbol].open_24h])
    ELSE Put(p, symbol, [price |-> price, open_24h |-> price])

\* Variant: a new symbol is inserted with its price seeded from the open price.
set_open_price_seeded(p, symbol, open) ==
    IF symbol \in DOMAIN p
    THEN Put(p, symbol, [price |-> p[symbol].price, open_24h |-> open])
    ELSE Put(p, symbol, [price |-> open, open_24h |-> open])

\* TickerState::set_open_price: the prices map after the call
set_open_price(p, symbol, open) ==
    IF symbol \in DOMAIN p
    THEN Put(p, symbol, [price |-> p[symbol].price, open_24h |-> open])
    ELSE Put(p, symbol, [price |-> 0, open_24h |-> open])

-----------------------------------------------------------------------------
(* src/websocket.rs *)

\* ws_to_rest_symbol, for the symbols in use
ws_to_rest_symbol(ws_symbol) ==
    CASE ws_symbol = BTC -> "XXBTZUSD"
      [] ws_symbol = ETH -> "XETHZUSD"
      [] ws_symbol = SOL -> "SOLUSD"
      [] OTHER           -> "DOGEUSD"

NoItem == [kind |-> "none"]

NoBatch == [prices |-> << >>, segments |-> << >>, batch |-> << >>]

\* State positions of the client at which it is inside a network operation:
\* the HTTP request, the connect, the subscribe send, read.next(), the pong
\* send (and the sleep).
NetworkIO == {"fetch", "connect", "subscribe", "read", "pong", "sleep"}

\* One more failure in a row (saturating: the history counter is capped).
Bump(n) == IF n < MaxFailures THEN n + 1 ELSE MaxFailures

\* The session (connect_and_stream) returns to run's loop: line 101.
EndSession(how) ==
    /\ pc' = "sleep"
    /\ ended' = how
    /\ trail' = << >>
    /\ failures' = Bump(failures)
    /\ inbound' = NoItem

\* Variant: the loop reconnects without fetching the reference prices again.
SleepDone_NoRefetch ==
    /\ pc = "sleep"
    /\ pc' = "connect"
    /\ trail' = Append(trail, "delay")
    /\ failed' = ""
    /\ UNCHANGED << storeVars, renderVars, lock, inbound, batch, ended, failures, preBatch >>

\* Variant: the loop gives up after MaxFailures failures in a row.
SleepDone_Bounded ==
    /\ pc = "sleep"
    /\ failures < MaxFailures
    /\ pc' = "fetch"
    /\ trail' = Append(trail, "delay")
    /\ failed' = ""
    /\ UNCHANGED << storeVars, renderVars, lock, inbound, batch, ended, failures, preBatch >>

\* Variant: the loop sleeps one interval for every failure in a row.
SleepDone_Backoff ==
    /\ pc = "sleep"
    /\ pc' = "fetch"
    /\ trail' = trail \o [i \in 1..failures |-> "delay"]
    /\ failed' = ""
    /\ UNCHANGED << storeVars, renderVars, lock, inbound, batch, ended, failures, preBatch >>

\* run, line 101: the sleep of 5 seconds is over; the loop starts again.
SleepDone ==
    /\ pc = "sleep"
    /\ pc' = "fetch"
    /\ trail' = Append(trail, "delay")
    /\ failed' = ""
    /\ UNCHANGED << storeVars, renderVars, lock, inbound, batch, ended, failures, preBatch >>

\* fetch_open_prices, lines 68-70: the request fails, the body does not
\* decode, or it has no result: nothing is applied.
FetchFail ==
    /\ pc = "fetch"
    /\ pc' = "connect"
    /\ trail' = Append(trail, "fetch")
    /\ failures' = Bump(failures)
    /\ UNCHANGED << storeVars, renderVars, lock, inbound, batch, ended, preBatch, failed >>

\* fetch_open_prices, lines 72-80: the calls the loop over the coins makes for
\* a result, in configured order.  result maps a REST id to the parsed open
\* price, or to None when the id, its "o" field or a numeric value is missing.
RECURSIVE open_updates(_, _, _)
open_updates(cs, result, i) ==
    IF i > Len(cs) THEN << >>
    ELSE IF result[ws_to_rest_symbol(cs[i].symbol)].has
    THEN << [op |-> "open", symbol |-> cs[i].symbol,
             value |-> result[ws_to_rest_symbol(cs[i].symbol)].open] >>
            \o open_updates(cs, result, i + 1)
    ELSE open_updates(cs, result, i + 1)

\* fetch_open_prices, lines 68-71: the response arrived and decoded; the
\* client goes on to state.lock().
FetchOk(result) ==
    /\ pc = "fetch"
    /\ pc' = "fetch_lock"
    /\ batch' = open_updates(coins, result, 1)
    /\ trail' = Append(trail, "fetch")
    /\ UNCHANGED << storeVars, renderVars, lock, inbound, ended, failures, preBatch, failed >>

\* state.lock(), websocket.rs lines 71 and 129: blocks until the mutex is free.
ClientLock ==
    /\ pc \in {"fetch_lock", "msg_lock"}
    /\ lock = "none"
    /\ lock' = "client"
    /\ pc' = IF pc = "fetch_lock" THEN "fetch_apply" ELSE "msg_apply"
    /\ preBatch' = [prices |-> prices, segments |-> segments, batch |-> batch]
    /\ UNCHANGED << storeVars, renderVars, inbound, batch, trail, ended, failures, failed >>

\* Variant: the derived open price is stored without the test `open > 0.0`.
apply_ticker_unchecked(p, t) ==
    IF t.symbol # None /\ t.hasLast
    THEN LET p1 == update_price(p, t.symbol, t.last)
         IN  IF t.hasChange
             THEN set_open_price(p1, t.symbol, t.last - t.change)
             ELSE p1
    ELSE p

\* What one entry of a ticker message does to the price map: lines 131-138.
apply_ticker(p, t) ==
    IF t.symbol # None /\ t.hasLast
    THEN LET p1 == update_price(p, t.symbol, t.last)
         IN  IF t.hasChange /\ t.last - t.change > 0
             THEN set_open_price(p1, t.symbol, t.last - t.change)
             ELSE p1
    ELSE p

\* One call of the loop body under the lock: lines 72-80 (an open price of
\* the fetch) or lines 130-139 (an entry of a ticker message).  Each store
\* call ends in rebuild_segments.
apply_one(p, u) ==
    IF u.op = "open" THEN set_open_price(p, u.symbol, u.value)
    ELSE apply_ticker(p, u)

\* Does the step call update_price or set_open_price at all?
Mutates(u) == u.op = "open" \/ (u.symbol # None /\ u.hasLast)

\* Variant: the loop over the entries stops at the first entry without a
\* symbol or a last price (`break` where the source falls through).
ClientApply_StopAtInvalid ==
    /\ pc \in {"fetch_apply", "msg_apply"}
    /\ batch # << >>
    /\ prices' = apply_one(prices, Head(batch))
    /\ segments' = IF Mutates(Head(batch))
                   THEN rebuild_segments(coins, apply_one(prices, Head(batch)))
                   ELSE segments
    /\ batch' = IF Mutates(Head(batch)) THEN Tail(batch) ELSE << >>
    /\ UNCHANGED << coins, lastCall, renderVars, lock, pc, inbound, trail, ended, failures,
                    preBatch, failed >>

\* Variant: the guard is taken inside the loop, once per entry, so the mutex
\* is free between two entries of a batch.
ClientApply_LockPerEntry ==
    /\ pc \in {"fetch_apply", "msg_apply"}
    /\ batch # << >>
    /\ prices' = apply_one(prices, Head(batch))
    /\ segments' = IF Mutates(Head(batch))
                   THEN rebuild_segments(coins, apply_one(prices, Head(batch)))
                   ELSE segments
    /\ batch' = Tail(batch)
    /\ lock' = IF Tail(batch) = << >> THEN lock ELSE "none"
    /\ pc' = IF Tail(batch) = << >> THEN pc
             ELSE IF pc = "fetch_apply" THEN "fetch_lock" ELSE "msg_lock"
    /\ UNCHANGED << coins, lastCall, renderVars, inbound, trail, ended, failures,
                    preBatch, failed >>

ClientApply ==
    /\ pc \in {"fetch_apply", "msg_apply"}
    /\ batch # << >>
    /\ prices' = apply_one(prices, Head(batch))
    /\ segments' = IF Mutates(Head(batch))
                   THEN rebuild_segments(coins, apply_one(prices, Head(batch)))
                   ELSE segments
    /\ batch' = Tail(batch)
    /\ UNCHANGED << coins, lastCall, renderVars, lock, pc, inbound, trail, ended, failures,
                    preBatch, failed >>

\* Variant: the guard outlives the block, so the mutex stays locked while the
\* client goes on to the next network operation.
ClientUnlock_Held ==
    /\ pc \in {"fetch_apply", "msg_apply"}
    /\ batch = << >>
    /\ pc' = IF pc = "fetch_apply" THEN "connect" ELSE "read"
    /\ inbound' = NoItem
    /\ preBatch' = NoBatch
    /\ UNCHANGED << storeVars, renderVars, lock, batch, trail, ended, failures, failed >>

\* The MutexGuard is dropped: end of line 81 / 140.
ClientUnlock ==
    /\ pc \in {"fetch_apply", "msg_apply"}
    /\ batch = << >>
    /\ lock' = "none"
    /\ pc' = IF pc = "fetch_apply" THEN "connect" ELSE "read"
    /\ inbound' = NoItem
    /\ preBatch' = NoBatch
    /\ UNCHANGED << storeVars, renderVars, batch, trail, ended, failures, failed >>

\* connect_and_stream, line 109: connect_async succeeds.
ConnectOk ==
    /\ pc = "connect"
    /\ pc' = "subscribe"
    /\ trail' = Append(trail, "connect")
    /\ UNCHANGED << storeVars, renderVars, lock, inbound, batch, ended, failures, preBatch, failed >>

\* Variant: the store is emptied when the connection cannot be established.
ConnectFail_Reset ==
    /\ pc = "connect"
    /\ EndSession("connect_failed")
    /\ failed' = "connect"
    /\ prices' = << >>
    /\ segments' = << >>
    /\ UNCHANGED << coins, lastCall, renderVars, lock, batch, preBatch >>

\* line 109: connect_async fails, `?` returns the error.
ConnectFail ==
    /\ pc = "connect"
    /\ EndSession("connect_failed")
    /\ failed' = "connect"
    /\ UNCHANGED << storeVars, renderVars, lock, batch, preBatch >>

\* line 121: the subscribe request is sent.
SubscribeOk ==
    /\ pc = "subscribe"
    /\ pc' = "read"
    /\ trail' = Append(trail, "subscribe")
    /\ UNCHANGED << storeVars, renderVars, lock, inbound, batch, ended, failures, preBatch, failed >>

\* line 121: the send fails, `?` returns the error.
SubscribeFail ==
    /\ pc = "subscribe"
    /\ EndSession("subscribe_failed")
    /\ failed' = "subscribe"
    /\ UNCHANGED << storeVars, renderVars, lock, batch, preBatch >>

\* line 123: read.next().await returns an item.
Recv(item) ==
    /\ pc = "read"
    /\ pc' = "dispatch"
    /\ inbound' = item
    /\ failures' = IF item.kind \in {"err", "end"} THEN failures ELSE 0
    /\ ended' = IF item.kind \in {"err", "end"} THEN ended ELSE ""
    /\ failed' = IF item.kind \in {"err", "end"} THEN failed ELSE ""
    /\ UNCHANGED << storeVars, renderVars, lock, batch, trail, preBatch >>

\* lines 126-128: the text decodes to a WsMessage of channel "ticker" with data.
Consumed(item) ==
    item.kind = "text" /\ item.decodes /\ item.channel = "ticker" /\ item.hasData

\* lines 125-129: a consumed text message; the client goes on to state.lock().
TextTicker ==
    /\ pc = "dispatch"
    /\ Consumed(inbound)
    /\ pc' = "msg_lock"
    /\ batch' = [i \in 1..Len(inbound.data) |->
                    [op |-> "tick"] @@ inbound.data[i]]
    /\ UNCHANGED << storeVars, renderVars, lock, inbound, trail, ended, failures, preBatch, failed >>

\* lines 125-145: a text that does not decode, is of another channel or has
\* no data falls through every `if let`.
TextIgnored ==
    /\ pc = "dispatch"
    /\ inbound.kind = "text"
    /\ ~Consumed(inbound)
    /\ pc' = "read"
    /\ inbound' = NoItem
    /\ UNCHANGED << storeVars, renderVars, lock, batch, trail, ended, failures, preBatch, failed >>

\* lines 146-148: a ping; the pong is sent.
PingArm ==
    /\ pc = "dispatch"
    /\ inbound.kind = "ping"
    /\ pc' = "pong"
    /\ UNCHANGED << storeVars, renderVars, lock, inbound, batch, trail, ended, failures, preBatch, failed >>

\* line 147: `let _ = write.send(Pong).await`: the result is dropped, so the
\* loop goes on whether the send succeeded (ok) or failed.
PongSent(ok) ==
    /\ pc = "pong"
    /\ pc' = "read"
    /\ inbound' = NoItem
    /\ failed' = IF ok THEN "" ELSE "pong"
    /\ UNCHANGED << storeVars, renderVars, lock, batch, trail, ended, failures, preBatch >>

\* Variant: a read error is noted and the loop goes on reading.
ErrArm_Continue ==
    /\ pc = "dispatch"
    /\ inbound.kind = "err"
    /\ pc' = "read"
    /\ inbound' = NoItem
    /\ failed' = "read"
    /\ UNCHANGED << storeVars, renderVars, lock, batch, trail, ended, failures, preBatch >>

\* line 149: the stream yields an error.
ErrArm ==
    /\ pc = "dispatch"
    /\ inbound.kind = "err"
    /\ EndSession("read_failed")
    /\ failed' = "read"
    /\ UNCHANGED << storeVars, renderVars, lock, batch, preBatch >>

\* line 150: any other frame (binary, pong, close).
OtherArm ==
    /\ pc = "dispatch"
    /\ inbound.kind = "other"
    /\ pc' = "read"
    /\ inbound' = NoItem
    /\ UNCHANGED << storeVars, renderVars, lock, batch, trail, ended, failures, preBatch, failed >>

\* Variant: the client thread returns when the stream ends without an error.
StreamEnd_Stop ==
    /\ pc = "dispatch"
    /\ inbound.kind = "end"
    /\ pc' = "stopped"
    /\ ended' = "stream_end"
    /\ trail' = << >>
    /\ failures' = Bump(failures)
    /\ inbound' = NoItem
    /\ failed' = ""
    /\ UNCHANGED << storeVars, renderVars, lock, batch, preBatch >>

\* lines 123 and 154: read.next() yields None; the function returns Ok(()).
StreamEnd ==
    /\ pc = "dispatch"
    /\ inbound.kind = "end"
    /\ EndSession("stream_end")
    /\ failed' = ""
    /\ UNCHANGED << storeVars, renderVars, lock, batch, preBatch >>

-----------------------------------------------------------------------------
(* src/main.rs: the draw function and the animation timer *)

\* AppearanceFile::default: icon_size
IconSize == 16

\* draw func, line 328
icon_space == IconSize + 4

\* f64 `%`: the remainder has the sign of the dividend (b > 0).
Rem(a, b) == IF a >= 0 THEN a % b ELSE -((-a) % b)

\* draw func, lines 332-341: the width of segment seg whose text advance is adv
seg_width(seg, adv) == IF seg.icon # None THEN icon_space + adv ELSE adv

RECURSIVE SumTo(_, _)
SumTo(ws, n) == IF n = 0 THEN 0 ELSE SumTo(ws, n - 1) + ws[n]

\* Variant: the cached width follows every measurement.
cache_width_follow(cached, total) == total

\* draw func, lines 348-352: the cached width after a frame that measured total
cache_width(cached, total) ==
    IF cached <= 0 \/ Abs(cached - total) > 1 THEN total ELSE cached

\* draw func, lines 359-384: the columns [x, x+1) of the viewport 0..width-1
\* that draw_ticker(start_x) paints: those of the segments it does not skip.
draw_ticker(start_x, ws, width) ==
    { x \in 0..(width - 1) :
        \E i \in 1..Len(ws) :
            LET sx == start_x + SumTo(ws, i - 1)
            IN  /\ sx + ws[i] > 0 /\ sx < width
                /\ sx <= x /\ x < sx + ws[i] }

NoFrame ==
    [kind |-> "none", segs |-> << >>, contended |-> FALSE, widths |-> << >>,
     use_width |-> 0, effective_offset |-> 0, width |-> 0, pass2 |-> FALSE, painted |-> {}]

\* draw func, lines 304-390, once the segments to draw are known.
render_frame(segs, contended, cached, offset, width, advs) ==
    LET ws    == [i \in 1..Len(segs) |-> seg_width(segs[i], advs[i])]
        total == SumTo(ws, Len(ws))
        use   == cache_width(cached, total)
        eff   == Rem(offset, use)
        end   == use - eff
    IN  IF segs = << >>
        THEN [NoFrame EXCEPT !.kind = "placeholder", !.contended = contended,
                             !.width = width]
        ELSE IF total <= 0
        THEN [NoFrame EXCEPT !.kind = "blank", !.segs = segs, !.widths = ws,
                             !.contended = contended, !.width = width]
        ELSE [kind |-> "ticker", segs |-> segs, contended |-> contended,
              widths |-> ws, use_width |-> use, effective_offset |-> eff, width |-> width,
              pass2 |-> (end < width),
              painted |-> draw_ticker(-eff, ws, width) \cup
                          (IF end < width THEN draw_ticker(end, ws, width) ELSE {})]

\* The cached width the frame leaves: lines 319-325 and 343-345 return early.
frame_cached(fr, cached) == IF fr.kind = "ticker" THEN fr.use_width ELSE cached

\* draw func, lines 295-300: try_lock succeeds; the renderer holds the mutex.
DrawAcquire ==
    /\ lock = "none"
    /\ lock' = "render"
    /\ UNCHANGED << storeVars, renderVars, pc, inbound, batch, trail, ended, failures, preBatch, failed >>

\* Variant: the frame that took the lock does not store what it cloned.
DrawFresh_NoStore(width, advs) ==
    /\ lock = "render"
    /\ lock' = "none"
    /\ snapshot' = segments
    /\ frame' = render_frame(segments, FALSE, cachedWidth, scrollOffset, width, advs)
    /\ cachedWidth' = frame_cached(frame', cachedWidth)
    /\ UNCHANGED << storeVars, lastSegments, scrollOffset, speed, pc, inbound, batch,
                    trail, ended, failures, preBatch, failed >>

\* draw func, lines 296-300 and 304-390: the segments are cloned, stored in
\* last_segments, the guard is dropped and the frame is drawn.
DrawFresh(width, advs) ==
    /\ lock = "render"
    /\ lock' = "none"
    /\ lastSegments' = segments
    /\ snapshot' = segments
    /\ frame' = render_frame(segments, FALSE, cachedWidth, scrollOffset, width, advs)
    /\ cachedWidth' = frame_cached(frame', cachedWidth)
    /\ UNCHANGED << storeVars, scrollOffset, speed, pc, inbound, batch, trail, ended,
                    failures, preBatch, failed >>

\* draw func, line 301 and 304-390: try_lock fails; the frame is drawn from
\* last_segments.
DrawStale(width, advs) ==
    /\ lock = "client"
    /\ frame' = render_frame(lastSegments, TRUE, cachedWidth, scrollOffset, width, advs)
    /\ cachedWidth' = frame_cached(frame', cachedWidth)
    /\ UNCHANGED << storeVars, lastSegments, snapshot, scrollOffset, speed,
                    clientVars >>

\* Variant: the offset restarts at 0.0 when it reaches the cached width.
tick_offset_reset(off, cached, step) ==
    IF cached > 0 /\ off + step >= cached THEN 0 ELSE off + step

\* animation timer, lines 402-413
tick_offset(off, cached, step) ==
    IF cached > 0 /\ off + step >= cached THEN off + step - cached ELSE off + step

Tick ==
    /\ Abs(tick_offset(scrollOffset, cachedWidth, speed)) <= MaxOffset
    /\ scrollOffset' = tick_offset(scrollOffset, cachedWidth, speed)
    /\ frame' = NoFrame
    /\ UNCHANGED << storeVars, clientVars, lastSegments, cachedWidth, speed, snapshot >>

-----------------------------------------------------------------------------
(* The public mutations of the price store, called directly *)

NoCall == [op |-> "none", symbol |-> None, value |-> 0, had |-> FALSE,
           before |-> [price |-> 0, open_24h |-> 0]]

\* The record of a call: the method, its arguments, whether the symbol had a
\* CoinData before the call and, if so, which.
Call(op, p, symbol, value) ==
    [op |-> op, symbol |-> symbol, value |-> value, had |-> symbol \in DOMAIN p,
     before |-> IF symbol \in DOMAIN p THEN p[symbol] ELSE NoCall.before]

UpdatePrice(symbol, price) ==
    /\ lock = "none" /\ pc = "idle"
    /\ prices' = update_price(prices, symbol, price)
    /\ segments' = rebuild_segments(coins, prices')
    /\ lastCall' = Call("update_price", prices, symbol, price)
    /\ UNCHANGED << coins, clientVars, renderVars >>

SetReferenceOpen(symbol, open) ==
    /\ lock = "none" /\ pc = "idle"
    /\ prices' = set_open_price(prices, symbol, open)
    /\ segments' = rebuild_segments(coins, prices')
    /\ lastCall' = Call("set_open_price", prices, symbol, open)
    /\ UNCHANGED << coins, clientVars, renderVars >>

-----------------------------------------------------------------------------------------------------------------------------------------------------
(* Inputs *)

Entry(symbol, hasLast, last, hasChange, change) ==
    [symbol |-> symbol, hasLast |-> hasLast, last |-> last,
     hasChange |-> hasChange, change |-> change]

\* Entries of ticker messages: a first price, a price with a change (open =
\* last - change = One, 5% up), a change that gives a negative open, an entry
\* without a symbol, one without a last price.
Entries ==
    { Entry(BTC, TRUE, One, FALSE, 0),
      Entry(BTC, TRUE, One + 50000, TRUE, 50000),
      Entry(ETH, TRUE, 2 * One, TRUE, 3 * One),
      Entry(None, TRUE, One, FALSE, 0),
      Entry(ETH, FALSE, 0, TRUE, 50000) }

RECURSIVE SeqsUpTo(_, _)
SeqsUpTo(S, n) ==
    IF n = 0 THEN { << >> }
    ELSE SeqsUpTo(S, n - 1) \cup
         { Append(q, e) : q \in { r \in SeqsUpTo(S, n - 1) : Len(r) = n - 1 }, e \in S }

Text(decodes, channel, hasData, data) ==
    [kind |-> "text", decodes |-> decodes, channel |-> channel,
     hasData |-> hasData, data |-> data]

\* Items of the stream that are no ticker data: an error, the end of the
\* stream, a ping, another frame, a text that does not decode, a text of
\* another channel (with and without a data array), a ticker text without data.
PlainItems ==
    { [kind |-> "err"], [kind |-> "end"], [kind |-> "ping"], [kind |-> "other"],
      Text(FALSE, None, FALSE, << >>),
      Text(TRUE, None, TRUE, << Entry(BTC, TRUE, 3 * One, FALSE, 0) >>),
      Text(TRUE, "status", FALSE, << >>),
      Text(TRUE, "ticker", FALSE, << >>) }

\* What read.next() can return.
Items == PlainItems \cup { Text(TRUE, "ticker", TRUE, d) : d \in SeqsUpTo(Entries, MaxBatch) }

RestIds == { ws_to_rest_symbol(s) : s \in {BTC, ETH, SOL, DOGE} }

Missing == [has |-> FALSE, open |-> 0]
Open(v) == [has |-> TRUE, open |-> v]

\* Decoded results of the reference-price query.
FetchResults ==
    { [id \in RestIds |-> Missing],
      [id \in RestIds |-> IF id = "XXBTZUSD" THEN Open(One) ELSE Missing],
      [id \in RestIds |-> IF id = "XETHZUSD" THEN Open(2 * One) ELSE Open(One)] }

\* Advances text_extents reports for the texts of segs: the same for every
\* text, or one unit more for the first.
Uniform(segs, a) == [i \in 1..Len(segs) |-> a]

Measures(segs, advances) ==
    { Uniform(segs, a) : a \in advances } \cup
    { [i \in 1..Len(segs) |-> IF i = 1 THEN a + 1 ELSE a] : a \in advances }

-----------------------------------------------------------------------------
(* The program: client thread, draw function, animation timer *)

InitCommon ==
    /\ prices = << >>
    /\ segments = << >>
    /\ lock = "none"
    /\ inbound = NoItem
    /\ batch = << >>
    /\ lastSegments = << >>
    /\ scrollOffset = 0
    /\ cachedWidth = 0
    /\ frame = NoFrame
    /\ trail = << >>
    /\ ended = ""
    /\ failures = 0
    /\ preBatch = NoBatch
    /\ failed = ""
    /\ snapshot = << >>
    /\ lastCall = NoCall

Init ==
    /\ InitCommon
    /\ coins = SubSeq(DefaultCoins, 1, 2)
    /\ pc = "fetch"
    /\ speed = 20

Client(items, results) ==
    \/ SleepDone
    \/ FetchFail
    \/ \E r \in results : FetchOk(r)
    \/ ClientLock
    \/ ClientApply
    \/ ClientUnlock
    \/ ConnectOk
    \/ ConnectFail
    \/ SubscribeOk
    \/ SubscribeFail
    \/ \E item \in items : Recv(item)
    \/ TextTicker
    \/ TextIgnored
    \/ PingArm
    \/ \E ok \in BOOLEAN : PongSent(ok)
    \/ ErrArm
    \/ OtherArm
    \/ StreamEnd

Next ==
    \/ Client(Items, FetchResults)
    \/ DrawAcquire
    \/ DrawFresh(40, Uniform(segments, 0))
    \/ DrawStale(40, Uniform(lastSegments, 0))
    \/ Tick

Spec == Init /\ [][Next]_vars

\* The client against the draw function, with fewer kinds of input: the
\* items that are no ticker data and one ticker message of one entry.
FairItems ==
    PlainItems \cup
    { Text(TRUE, "ticker", TRUE, << Entry(BTC, TRUE, One + 50000, TRUE, 50000) >>) }

FairResults ==
    { [id \in RestIds |-> Missing],
      [id \in RestIds |-> IF id = "XETHZUSD" THEN Open(2 * One) ELSE Open(One)] }

\* What the scheduling gives the client thread: the sleep ends, the blocking
\* HTTP request returns, a thread waiting in lock() gets the mutex (the draw
\* function holds it only to clone the segments), the loop under the lock
\* runs to its end and the guard is dropped.
ClientProgress ==
    \/ SleepDone
    \/ FetchFail
    \/ \E r \in FairResults : FetchOk(r)
    \/ ClientApply
    \/ ClientUnlock

Fairness ==
    /\ WF_vars(ClientProgress)
    /\ SF_vars(ClientLock)
    /\ WF_vars(DrawFresh(40, Uniform(segments, 0)))

FairNext ==
    \/ Client(FairItems, FairResults)
    \/ DrawAcquire
    \/ DrawFresh(40, Uniform(segments, 0))
    \/ DrawStale(40, Uniform(lastSegments, 0))

FairSpec == Init /\ [][FairNext]_vars /\ Fairness

-----------------------------------------------------------------------------
(* The price store alone, under any sequence of calls *)

StoreSymbols == {BTC, ETH, SOL}
StoreValues  == {-One, 0, One, One + 50000}

StoreInit ==
    /\ InitCommon
    /\ coins \in { DefaultCoins, << DefaultCoins[3], DefaultCoins[1] >> }
    /\ pc = "idle"
    /\ speed = 0

StoreNext ==
    \/ \E s \in StoreSymbols, v \in StoreValues : UpdatePrice(s, v)
    \/ \E s \in StoreSymbols, v \in StoreValues : SetReferenceOpen(s, v)

StoreSpec == StoreInit /\ [][StoreNext]_vars

-----------------------------------------------------------------------------
(* The compositor alone: frames and animation ticks over a changing store *)

Viewports == {30, 64}
Advances  == {4}
Speeds    == {-3, 7}

ScrollInit ==
    /\ InitCommon
    /\ coins = SubSeq(DefaultCoins, 1, 2)
    /\ pc = "idle"
    /\ speed \in Speeds

ScrollNext ==
    \/ \E s \in {BTC, ETH} : UpdatePrice(s, One)
    \/ UpdatePrice(BTC, 0)
    \/ DrawAcquire
    \/ \E w \in Viewports, a \in Measures(segments, Advances) : DrawFresh(w, a)
    \/ Tick

ScrollSpec == ScrollInit /\ [][ScrollNext]_vars

-----------------------------------------------------------------------------
(* Properties *)

IsSeparator(seg) == seg.icon = None

InstrumentSegments == SelectSeq(segments, LAMBDA seg : ~IsSeparator(seg))
SeparatorSegments  == SelectSeq(segments, IsSeparator)

\* The configured instruments whose price is > 0, in configured order.
ActiveCoins ==
    SelectSeq(coins, LAMBDA c : c.symbol \in DOMAIN prices /\ prices[c.symbol].price > 0)

\* C1, as claimed: the segment sequence has one instrument segment per
\* configured instrument with price > 0 (n of them) and, when n > 1, exactly
\* n - 1 separators, none trailing; no separator when n is 0 or 1.
C1_SeparatorsBetween ==
    LET n == Len(ActiveCoins)
    IN  /\ Len(InstrumentSegments) = n
        /\ Len(SeparatorSegments) = IF n > 1 THEN n - 1 ELSE 0
        /\ (segments # << >> => ~IsSeparator(segments[Len(segments)]))

\* C1, amended: n instrument segments and, when n > 1, exactly n separators,
\* one after every instrument segment, the last one trailing; no separator
\* when n is 0 or 1.
C1_SegmentCount ==
    LET n == Len(ActiveCoins)
    IN  /\ Len(InstrumentSegments) = n
        /\ Len(SeparatorSegments) = IF n > 1 THEN n ELSE 0
        /\ Len(segments) = IF n > 1 THEN 2 * n ELSE n
        /\ n > 1 => \A i \in 1..Len(segments) : IsSeparator(segments[i]) <=> (i % 2 = 0)

\* Three instruments are active after a series of calls: six segments.
C1_Witness ==
    /\ Len(ActiveCoins) = 3
    /\ Len(segments) = 6
    /\ \E s \in DOMAIN prices : prices[s].price # prices[s].open_24h

\* C8: the instrument segments, in order, are the configured instruments with
\* price > 0 in configured order, each with its configured icon key and the
\* text of its own record.
C8_ConfiguredOrder ==
    /\ Len(InstrumentSegments) = Len(ActiveCoins)
    /\ \A i \in 1..Len(InstrumentSegments) :
          /\ InstrumentSegments[i].icon = ActiveCoins[i].icon
          /\ InstrumentSegments[i].text[1] =
                format_price(prices[ActiveCoins[i].symbol].price)

\* The configuration lists SOL before BTC; both are active, a third symbol
\* has a record too, and the SOL segment comes first.
C8_Witness ==
    /\ Len(coins) = 2 /\ coins[1].symbol = SOL /\ coins[2].symbol = BTC
    /\ Len(ActiveCoins) = 2
    /\ ETH \in DOMAIN prices
    /\ prices[SOL].price # prices[BTC].price
    /\ InstrumentSegments[1].icon = "sol.svg"
    /\ InstrumentSegments[2].icon = "btc.svg"

\* C2, as claimed: in every frame that draws the ticker (cached width > 0),
\* every column of the viewport [0, width) is painted by the segment run of
\* draw pass 1 or of draw pass 2.
C2_Gapless ==
    (frame.kind = "ticker" /\ frame.use_width > 0 /\ frame.width > 0)
        => frame.painted = 0..(frame.width - 1)

\* The events of one pass of run's loop after a session ended.
ReconnectSequence == << "delay", "fetch", "connect", "subscribe" >>

\* How many of them have happened when the client is at position p.
Progress(p) ==
    CASE p = "sleep" -> 0
      [] p = "fetch" -> 1
      [] p \in {"fetch_lock", "fetch_apply", "connect"} -> 2
      [] p = "subscribe" -> 3
      [] OTHER -> 4

\* C3: after a read failure ended the session, the client's next events are,
\* in this order and once each, the delay, the reference fetch, the connect
\* attempt and the subscribe request.
C3_ReconnectOrder ==
    ended = "read_failed" => trail = SubSeq(ReconnectSequence, 1, Progress(pc))

\* The session that followed a read failure has subscribed and is reading.
C3_Witness ==
    /\ ended = "read_failed"
    /\ pc = "read"
    /\ trail = ReconnectSequence

\* C5: a frame drawn while the client holds the lock leaves the lock with the
\* client and draws the segments captured at the renderer's last acquisition;
\* a frame that acquired the lock draws the current segments and stores them.
C5_StaleOrFresh ==
    /\ [](lastSegments = snapshot /\ (frame.kind # "none" => frame.segs = snapshot))
    /\ [][ (frame' # frame /\ frame'.kind # "none") =>
             IF lock = "client"
             THEN /\ frame'.contended
                  /\ frame'.segs = snapshot
                  /\ UNCHANGED << lock, pc, batch, lastSegments, storeVars >>
             ELSE /\ ~frame'.contended
                  /\ frame'.segs = segments
                  /\ lastSegments' = segments
                  /\ lock = "render" /\ lock' = "none" ]_vars

\* A frame was drawn from the last snapshot while the client, holding the
\* lock, had already changed the segments.
C5_Witness ==
    /\ lock = "client"
    /\ frame.kind = "ticker"
    /\ frame.contended
    /\ frame.segs # segments

\* C6: whenever the client holds the lock it is applying updates, not inside
\* a network operation.
C6_NoIOUnderLock ==
    lock = "client" => (pc \notin NetworkIO /\ pc \in {"fetch_apply", "msg_apply"})

\* The client holds the lock with results of the reference fetch to apply.
C6_Witness ==
    /\ lock = "client"
    /\ pc = "fetch_apply"
    /\ Len(batch) = 2

\* C7, as claimed: while the reference-price request is pending after a
\* session, the client can still take items of the stream.
C7_TicksDuringFetch ==
    (pc = "fetch" /\ ended # "") => ENABLED (\E item \in Items : Recv(item))

\* C9, as claimed: after any failed transport operation (connect, subscribe
\* send, read, pong send) the client is in the delay before the restart.
C9_EveryFailureEnds ==
    failed \in {"connect", "subscribe", "read", "pong"} => pc = "sleep"

\* C9, amended: a failed connect, subscribe send or read puts the client in
\* the delay, from which the loop restarts; a failed pong send is dropped and
\* the client stays in the read loop of the same session.
C9_TransportErrorsEnd ==
    /\ failed \in {"connect", "subscribe", "read"} =>
          (pc = "sleep" /\ trail = << >> /\ ENABLED SleepDone)
    /\ failed = "pong" => pc \in {"read", "dispatch"}

\* A read failure ended a session that had applied prices.
C9_Witness ==
    /\ failed = "read"
    /\ pc = "sleep"
    /\ ended = "read_failed"
    /\ prices # << >>

\* A text the read loop does not consume.
Ignorable(item) ==
    item.kind = "text" /\ (~item.decodes \/ item.channel # "ticker" \/ ~item.hasData)

HasSymbolAndLast(u) == u.symbol # None /\ u.hasLast

RECURSIVE ApplyAll(_, _)
ApplyAll(p, b) == IF b = << >> THEN p ELSE ApplyAll(apply_one(p, Head(b)), Tail(b))

\* C10: a text that does not decode, is not of channel "ticker" or has no
\* data changes neither the records nor the segments and does not end the
\* session; the entries of a ticker message without symbol or last price are
\* skipped, the others applied as if the skipped ones were not there.
C10_TolerantDecoding ==
    /\ [][ (pc = "dispatch" /\ Ignorable(inbound)) =>
             /\ UNCHANGED << prices, segments, ended >>
             /\ lock' # "client"
             /\ pc' \in {"dispatch", "read"} ]_vars
    /\ [](pc = "msg_apply" =>
             ApplyAll(prices, batch) =
                ApplyAll(preBatch.prices, SelectSeq(preBatch.batch, HasSymbolAndLast)))

\* A message whose first entry has no symbol or no last price and whose second
\* entry is complete has been applied: the records changed.
C10_Witness ==
    /\ pc = "msg_apply"
    /\ batch = << >>
    /\ Len(preBatch.batch) = 2
    /\ ~HasSymbolAndLast(preBatch.batch[1])
    /\ HasSymbolAndLast(preBatch.batch[2])
    /\ prices # preBatch.prices

\* C4: the client never stops: from the delay after any failure, however many
\* in a row, it gets to the next connect attempt, and at every moment some
\* step of the client is possible unless the draw function holds the lock.
C4_AlwaysReconnects ==
    /\ [](ENABLED Client(FairItems, FairResults) \/ lock = "render")
    /\ (pc = "sleep") ~> (pc = "connect")

\* The client is about to connect after MaxFailures failures in a row.
C4_Witness ==
    /\ pc = "connect"
    /\ failures = MaxFailures
    /\ ended = "subscribe_failed"

-----------------------------------------------------------------------------
(* The client alone when no reference value is ever supplied: the reference *)
(* query fails or answers without open prices, and the entries of the feed  *)
(* carry no change field.                                                   *)

DegradedEntries ==
    { Entry(BTC, TRUE, One, FALSE, 0),
      Entry(BTC, TRUE, One + 50000, FALSE, 0),
      Entry(BTC, TRUE, 0, FALSE, 0),
      Entry(ETH, TRUE, 0, FALSE, 0),
      Entry(ETH, TRUE, 2 * One, FALSE, 0) }

DegradedItems ==
    PlainItems \cup { Text(TRUE, "ticker", TRUE, << e >>) : e \in DegradedEntries }

DegradedResults == { [id \in RestIds |-> Missing] }

DegradedNext == Client(DegradedItems, DegradedResults)

DegradedSpec == Init /\ [][DegradedNext]_vars

\* The segment of a configured symbol is the one that carries its icon key.
IconOf(symbol) == coins[CHOOSE i \in DOMAIN coins : coins[i].symbol = symbol].icon

Shown(symbol) == \E i \in DOMAIN segments : segments[i].icon = IconOf(symbol)

SegmentOf(symbol) ==
    segments[CHOOSE i \in DOMAIN segments : segments[i].icon = IconOf(symbol)]

IsPlaceholder(seg) == seg.text[2].arrow = "--"

\* The text "0.0%" without an arrow.
IsZeroChange(seg) == seg.text[2] = [sign |-> "", tenths |-> 0, arrow |-> ""]

Configured == { coins[i].symbol : i \in DOMAIN coins }

Active(symbol) == symbol \in DOMAIN prices /\ prices[symbol].price > 0

\* C11, as claimed: with no reference value supplied, every configured
\* instrument that has a positive price is rendered with the placeholder "--"
\* and direction Neutral.
C11_PlaceholderWithoutReference ==
    \A s \in Configured :
        Active(s) => /\ Shown(s)
                     /\ IsPlaceholder(SegmentOf(s))
                     /\ SegmentOf(s).direction = Neutral

\* C11, amended: with no reference value supplied, the reference of a record
\* is the first price received for the symbol and stays it; an instrument
\* with a positive price is rendered, with the placeholder "--" (Neutral)
\* exactly when that reference is <= 0, and with "0.0%" (Neutral) while its
\* price equals a positive reference.
C11_SeededWithFirstPrice ==
    /\ [][ \A s \in Configured :
              /\ (s \notin DOMAIN prices /\ s \in DOMAIN prices')
                    => prices'[s].open_24h = prices'[s].price
              /\ s \in DOMAIN prices
                    => (s \in DOMAIN prices' /\ prices'[s].open_24h = prices[s].open_24h) ]_vars
    /\ [](\A s \in Configured :
            Active(s) =>
              /\ Shown(s)
              /\ IsPlaceholder(SegmentOf(s)) <=> (prices[s].open_24h <= 0)
              /\ IsPlaceholder(SegmentOf(s)) => SegmentOf(s).direction = Neutral
              /\ (prices[s].open_24h > 0 /\ prices[s].price = prices[s].open_24h)
                    => (IsZeroChange(SegmentOf(s)) /\ SegmentOf(s).direction = Neutral))

\* The first price of BTC/USD was 1.0 and a tick of 1.05 has just been
\* applied: the segment shows +5.0% and Up, no placeholder.
C11_Witness ==
    /\ pc = "msg_apply" /\ batch = << >>
    /\ BTC \in DOMAIN preBatch.prices
    /\ preBatch.prices[BTC] = [price |-> One, open_24h |-> One]
    /\ Active(BTC)
    /\ prices[BTC] = [price |-> One + 50000, open_24h |-> One]
    /\ SegmentOf(BTC).text[2] = [sign |-> "+", tenths |-> 50, arrow |-> "up"]
    /\ SegmentOf(BTC).direction = Up

\* C12: update_price on a symbol without a record creates the record with
\* price and reference both equal to the given price; if that price is > 0
\* and the symbol is configured, its segment reads 0.0% with direction Neutral.
C12_NewSymbolSeeded ==
    (lastCall.op = "update_price" /\ ~lastCall.had) =>
        /\ lastCall.symbol \in DOMAIN prices
        /\ prices[lastCall.symbol] = [price |-> lastCall.value, open_24h |-> lastCall.value]
        /\ (lastCall.value > 0 /\ lastCall.symbol \in Configured) =>
              /\ Shown(lastCall.symbol)
              /\ IsZeroChange(SegmentOf(lastCall.symbol))
              /\ SegmentOf(lastCall.symbol).direction = Neutral

\* SOL/USD, configured, just got its first price, 1.05, while another
\* instrument is shown with a change that is not zero.
C12_Witness ==
    /\ lastCall.op = "update_price" /\ ~lastCall.had
    /\ lastCall.symbol = SOL /\ lastCall.value = One + 50000
    /\ SOL \in Configured /\ Shown(SOL)
    /\ Active(BTC) /\ ~IsZeroChange(SegmentOf(BTC))

\* The symbol has a record without a positive price.
Excluded(symbol) == symbol \in DOMAIN prices /\ prices[symbol].price <= 0

\* C13: set_open_price on a symbol without a record creates the record with
\* price 0 and the symbol has no segment; a symbol without a positive price
\* stays so, and without a segment, through every call that is not an
\* update_price with a positive price for it; update_price on an existing
\* record sets the price and keeps the stored reference.
C13_ExcludedUntilPriced ==
    /\ []((lastCall.op = "set_open_price" /\ ~lastCall.had) =>
            /\ lastCall.symbol \in DOMAIN prices
            /\ prices[lastCall.symbol] = [price |-> 0, open_24h |-> lastCall.value]
            /\ lastCall.symbol \in Configured => ~Shown(lastCall.symbol))
    /\ [][ \A s \in StoreSymbols :
              (/\ Excluded(s)
               /\ ~(lastCall'.op = "update_price" /\ lastCall'.symbol = s
                     /\ lastCall'.value > 0))
                 => (Excluded(s)' /\ (s \in Configured => ~Shown(s)')) ]_vars
    /\ []((lastCall.op = "update_price" /\ lastCall.had) =>
            /\ prices[lastCall.symbol] =
                   [price |-> lastCall.value, open_24h |-> lastCall.before.open_24h]
            /\ (lastCall.value > 0 /\ lastCall.symbol \in Configured)
                  => Shown(lastCall.symbol))

\* SOL/USD had the record {price 0, reference 1.0} and has just got the price
\* 1.05: it is shown, 5% up on the stored reference.
C13_Witness ==
    /\ lastCall.op = "update_price" /\ lastCall.had
    /\ lastCall.symbol = SOL /\ lastCall.value = One + 50000
    /\ lastCall.before = [price |-> 0, open_24h |-> One]
    /\ SOL \in Configured /\ Shown(SOL)
    /\ SegmentOf(SOL).direction = Up

\* C14: a call of update_price that repeats the symbol and the price of the
\* call just before it changes neither the records nor the segments.
C14_UpdateIdempotent ==
    [][ (/\ lastCall.op = "update_price"
         /\ lastCall'.op = "update_price"
         /\ lastCall'.symbol = lastCall.symbol
         /\ lastCall'.value = lastCall.value)
          => (prices' = prices /\ segments' = segments) ]_vars

\* update_price(BTC/USD, 1.05) was called on a record that already had the
\* price 1.05 and a different reference; the instrument is shown.
C14_Witness ==
    /\ lastCall.op = "update_price" /\ lastCall.had
    /\ lastCall.symbol = BTC /\ lastCall.value = One + 50000
    /\ lastCall.before = [price |-> One + 50000, open_24h |-> One]
    /\ prices[BTC] = lastCall.before
    /\ BTC \in Configured /\ Shown(BTC)
    /\ Len(segments) > 1

\* No frame was drawn since the last animation tick, and a frame before it
\* set the cached width.
AfterTick == frame = NoFrame /\ cachedWidth > 0

\* C15, as claimed: after every animation tick taken while the cached width
\* is > 0, 0 <= scroll offset < cached width.
C15_OffsetBounded ==
    AfterTick => (0 <= scrollOffset /\ scrollOffset < cachedWidth)

\* C16: a tick from an offset o in [0, W) with a step s in [0, W), W the
\* cached width, leaves the offset (o + s) mod W; a frame that keeps the
\* cached width W and finds the offset in [0, W) takes it as its effective
\* offset, runs draw pass 1 from x = -offset, and runs draw pass 2, from
\* x = W - offset, exactly when W - offset is less than the viewport width.
C16_Wraparound ==
    /\ [][ (/\ scrollOffset' # scrollOffset
             /\ cachedWidth > 0
             /\ 0 <= scrollOffset /\ scrollOffset < cachedWidth
             /\ 0 <= speed /\ speed < cachedWidth)
              => scrollOffset' = (scrollOffset + speed) % cachedWidth ]_vars
    /\ [][ (/\ frame' # frame
             /\ frame'.kind = "ticker"
             /\ frame'.use_width = cachedWidth
             /\ 0 <= scrollOffset /\ scrollOffset < cachedWidth)
              => /\ frame'.effective_offset = scrollOffset
                 /\ frame'.pass2 <=> (cachedWidth - scrollOffset < frame'.width)
                 /\ frame'.painted =
                       draw_ticker(-scrollOffset, frame'.widths, frame'.width) \cup
                       (IF cachedWidth - scrollOffset < frame'.width
                        THEN draw_ticker(cachedWidth - scrollOffset, frame'.widths,
                                         frame'.width)
                        ELSE {}) ]_vars

\* With W = 24 and a step of 7 the offset went 21 -> 28 - 24 = 4; the frame
\* after the tick has the effective offset 4 and a draw pass 2 from x = 20.
C16_Witness ==
    /\ speed = 7
    /\ cachedWidth = 24
    /\ scrollOffset = 4
    /\ frame.kind = "ticker"
    /\ frame.use_width = 24
    /\ frame.effective_offset = 4
    /\ frame.pass2
    /\ 20 \in frame.painted

-----------------------------------------------------------------------------
(* The change text of one instrument over sampled prices and references *)

\* Prices around a reference of 1.0: 5% below and above, and the edges of
\* the dead zone (a change of 0.01% is 100 micro-units).
ChangeSamples ==
    { 0, One - 50000, One - 101, One - 100, One - 50, One,
      One + 50, One + 100, One + 101, One + 50000 }

ReferenceSamples == { -One, 0, One }

ChangeInit ==
    /\ InitCommon
    /\ coins = << DefaultCoins[1] >>
    /\ pc = "idle"
    /\ speed = 0

ChangeNext ==
    \/ \E v \in ChangeSamples : UpdatePrice(BTC, v)
    \/ \E o \in ReferenceSamples : SetReferenceOpen(BTC, o)

ChangeSpec == ChangeInit /\ [][ChangeNext]_vars

\* C17: for an active instrument with reference open > 0 and change =
\* (price - open) / open * 100, the direction is Up iff change > 0.01, Down
\* iff change < -0.01 and Neutral otherwise; with open <= 0 the segment has
\* the placeholder "--" and direction Neutral.
\* (change > 0.01 iff (price - open) * 10^4 > open, as open > 0.)
C17_DeadZone ==
    \A s \in Configured :
        Active(s) =>
            LET p   == prices[s].price
                o   == prices[s].open_24h
                seg == SegmentOf(s)
            IN  IF o > 0
                THEN /\ ~IsPlaceholder(seg)
                     /\ seg.direction = Up <=> (p - o) * 10000 > o
                     /\ seg.direction = Down <=> (o - p) * 10000 > o
                     /\ seg.direction = Neutral <=>
                           ((p - o) * 10000 <= o /\ (o - p) * 10000 <= o)
                ELSE IsPlaceholder(seg) /\ seg.direction = Neutral

\* Price 1.00005 on a reference of 1.0: a change of 0.005%, inside the dead
\* zone, shown as 0.0% and Neutral.
C17_Witness ==
    /\ Active(BTC)
    /\ prices[BTC] = [price |-> One + 50, open_24h |-> One]
    /\ lastCall.op = "update_price"
    /\ IsZeroChange(SegmentOf(BTC))
    /\ SegmentOf(BTC).direction = Neutral

-----------------------------------------------------------------------------
(* The price text: each instrument gets one price, from samples around the *)
(* tiers of format_price (0.01, 1, 1000)                                    *)

PriceSamples ==
    { 12, 9999, 10000, 34560, 999999, One, 3141590, 999994999, 999995000,
      1000 * One, 1234500000, 2000 * One }

TierInit ==
    /\ InitCommon
    /\ coins = DefaultCoins
    /\ pc = "idle"
    /\ speed = 0

TierNext ==
    \E s \in StoreSymbols, v \in PriceSamples :
        s \notin DOMAIN prices /\ UpdatePrice(s, v)

TierSpec == TierInit /\ [][TierNext]_vars

\* 10^(6 - dec): the value, in micro-units, of one unit of the last decimal.
LastDecimal(dec) ==
    CASE dec = 0 -> 1000000 [] dec = 2 -> 10000 [] dec = 4 -> 100 [] dec = 6 -> 1

\* C18: the price text of an active instrument has 0 decimals when price >=
\* 1000, 2 when 1 <= price < 1000, 4 when 0.01 <= price < 1 and 6 otherwise,
\* and its digits are the price rounded to that number of decimals (at most
\* half a unit of the last decimal away from the price).
C18_PriceTiers ==
    \A s \in Configured :
        Active(s) =>
            LET p    == prices[s].price
                text == SegmentOf(s).text[1]
            IN  /\ text.dec = (IF p >= 1000 * One THEN 0
                               ELSE IF p >= One THEN 2
                               ELSE IF p >= 10000 THEN 4 ELSE 6)
                /\ 2 * Abs(text.digits * LastDecimal(text.dec) - p) <= LastDecimal(text.dec)

\* 0.03456 is shown with four decimals, rounded up: 0.0346; 3.14159 with two
\* decimals: 3.14; 1234.5 with none: 1234 or 1235.
C18_Witness ==
    /\ Active(BTC) /\ Active(ETH) /\ Active(SOL)
    /\ prices[BTC].price = 34560
    /\ SegmentOf(BTC).text[1] = [dec |-> 4, digits |-> 346]
    /\ prices[ETH].price = 3141590
    /\ SegmentOf(ETH).text[1] = [dec |-> 2, digits |-> 314]
    /\ prices[SOL].price = 1234500000
    /\ SegmentOf(SOL).text[1].dec = 0

-----------------------------------------------------------------------------
(* The client alone, over a feed and a reference query that may carry any   *)
(* number: negative prices, changes larger than the price, negative opens   *)

FeedEntries ==
    { Entry(BTC, TRUE, One, FALSE, 0),
      Entry(BTC, TRUE, One + 50000, TRUE, 50000),
      Entry(BTC, TRUE, -One, FALSE, 0),
      Entry(ETH, TRUE, 2 * One, TRUE, 3 * One),
      Entry(ETH, TRUE, One, TRUE, One),
      Entry(ETH, TRUE, One, TRUE, -One),
      Entry(None, TRUE, One, FALSE, 0) }

FeedItems ==
    PlainItems \cup { Text(TRUE, "ticker", TRUE, << e >>) : e \in FeedEntries }
               \cup { Text(TRUE, "ticker", TRUE,
                           << Entry(ETH, FALSE, 0, TRUE, 50000),
                              Entry(ETH, TRUE, 2 * One, TRUE, One) >>) }

FeedResults ==
    { [id \in RestIds |-> Missing],
      [id \in RestIds |-> IF id = "XXBTZUSD" THEN Open(One) ELSE Missing],
      [id \in RestIds |-> IF id = "XETHZUSD" THEN Open(-One) ELSE Open(0)] }

FeedNext == Client(FeedItems, FeedResults)

FeedSpec == Init /\ [][FeedNext]_vars

\* C19, as claimed: every stored record has price >= 0 and reference open
\* >= 0, whatever the feed and the reference query carry.
C19_RecordsNonNegative ==
    \A s \in DOMAIN prices : prices[s].price >= 0 /\ prices[s].open_24h >= 0

\* C20: the client applies one entry {symbol, last, change} of a ticker
\* message: afterwards the record's price is last; its reference is
\* last - change if change is present and last - change > 0, and otherwise
\* what it was before the entry, or last for a symbol that had no record;
\* the records of the other symbols are as before.
C20_TickerEntry ==
    [][ (/\ pc = "msg_apply"
         /\ batch # << >>
         /\ batch' = Tail(batch)
         /\ HasSymbolAndLast(Head(batch)))
          => LET t == Head(batch)
                 s == t.symbol
             IN  /\ DOMAIN prices' = DOMAIN prices \cup {s}
                 /\ prices'[s].price = t.last
                 /\ prices'[s].open_24h =
                       (IF t.hasChange /\ t.last - t.change > 0 THEN t.last - t.change
                        ELSE IF s \in DOMAIN prices THEN prices[s].open_24h
                        ELSE t.last)
                 /\ \A o \in DOMAIN prices \ {s} : prices'[o] = prices[o] ]_vars

\* The entry {ETH/USD, last 1.0, change -1.0} was applied to a record with
\* another price and another reference: the record is {1.0, 2.0}.
C20_Witness ==
    /\ pc = "msg_apply" /\ batch = << >>
    /\ preBatch.batch = << [op |-> "tick"] @@ Entry(ETH, TRUE, One, TRUE, -One) >>
    /\ ETH \in DOMAIN preBatch.prices
    /\ preBatch.prices[ETH].price # One
    /\ preBatch.prices[ETH].open_24h # 2 * One
    /\ prices[ETH] = [price |-> One, open_24h |-> 2 * One]

\* The total width a ticker frame measured.
Measured(fr) == SumTo(fr.widths, Len(fr.widths))

\* A step in which the draw function runs with the mutex held.
FreshFrameStep == lock = "render" /\ lock' = "none"

\* C21: a frame that measured a total width M > 0 replaces the cached width
\* by M exactly when the cached width was <= 0 or differed from M by more
\* than 1, and keeps it otherwise, so that afterwards the cached width is
\* within 1 of M; a frame with no segments leaves the cached width unchanged.
C21_WidthHysteresis ==
    [][FreshFrameStep =>
        LET M == Measured(frame')
        IN  /\ frame'.kind = "ticker" =>
                /\ M > 0
                /\ (cachedWidth' = M) <=>
                        (cachedWidth <= 0 \/ Abs(cachedWidth - M) > 1 \/ cachedWidth = M)
                /\ cachedWidth' # M => cachedWidth' = cachedWidth
                /\ Abs(cachedWidth' - M) <= 1
            /\ frame'.segs = << >> =>
                /\ frame'.kind = "placeholder"
                /\ cachedWidth' = cachedWidth]_vars

\* A frame measured a width one unit off the cached width, which was kept.
C21_Witness ==
    /\ frame.kind = "ticker"
    /\ Measured(frame) = cachedWidth + 1
    /\ frame.use_width = cachedWidth

\* The ways a session ends with a transport error.
TransportEnds == {"connect_failed", "subscribe_failed", "read_failed"}

\* The sleeps of the fixed interval the client has completed since the last
\* session ended.
Delays == Len(SelectSeq(trail, LAMBDA e : e = "delay"))

\* C22: a connect attempt that follows an earlier one is preceded by exactly
\* one sleep of the fixed interval, however the earlier session ended and
\* however many failures came in a row, and the only way from one connect
\* attempt to the next goes through that sleep.
C22_OneDelayPerReconnect ==
    /\ [](pc = "connect" =>
            IF ended = ""
            THEN trail = << "fetch" >>
            ELSE /\ Delays = 1
                 /\ trail = << "delay", "fetch" >>)
    /\ [](pc = "sleep" => Delays = 0 /\ ended # "")
    /\ [][pc = "connect" /\ pc' # "connect" => pc' \in {"subscribe", "sleep"}]_vars
    /\ [][pc # "connect" /\ pc' = "connect" /\ ended # "" => Delays' = 1]_vars

\* The client is about to connect again after a failed connect attempt, the
\* latest of MaxFailures failures in a row, having slept once.
C22_Witness ==
    /\ pc = "connect"
    /\ ended = "connect_failed"
    /\ failures = MaxFailures
    /\ Delays = 1

\* C23: update_price on a symbol that has a record keeps its reference open,
\* set_open_price on a symbol that has a record keeps its price, a call
\* leaves the record of every other symbol as it was, and a symbol that has
\* a record keeps having one.
C23_FieldsIndependent ==
    /\ []((lastCall.op = "update_price" /\ lastCall.had) =>
            /\ prices[lastCall.symbol].open_24h = lastCall.before.open_24h
            /\ prices[lastCall.symbol].price = lastCall.value)
    /\ []((lastCall.op = "set_open_price" /\ lastCall.had) =>
            /\ prices[lastCall.symbol].price = lastCall.before.price
            /\ prices[lastCall.symbol].open_24h = lastCall.value)
    /\ [][\A s \in DOMAIN prices :
            /\ s \in DOMAIN prices'
            /\ s # lastCall'.symbol => prices'[s] = prices[s]]_vars

\* All three symbols have a record; BTC/USD, whose price and reference were
\* 1.05, has just got the reference 1.0 and kept its price.
C23_Witness ==
    /\ DOMAIN prices = StoreSymbols
    /\ lastCall.op = "set_open_price" /\ lastCall.had
    /\ lastCall.symbol = BTC /\ lastCall.value = One
    /\ lastCall.before = [price |-> One + 50000, open_24h |-> One + 50000]
    /\ prices[BTC] = [price |-> One + 50000, open_24h |-> One]
    /\ prices[ETH].price # prices[BTC].price

\* The client is between the first store call of a batch (the entries of one
\* ticker message, the results of one reference fetch) and its last.
InBatch == pc \in {"fetch_apply", "msg_apply"} \/ preBatch # NoBatch

\* A step in which the draw function captures the segments.
Capture == lock = "render" /\ lock' = "none"

\* C24: the draw function holds the mutex, and captures the segments, only
\* when the client is not inside a batch, so a captured sequence is the one
\* before or the one after a whole batch; nothing else changes what the
\* renderer draws from, and a frame drawn while a batch is being applied
\* draws the sequence captured last.
C24_BatchAtomic ==
    /\ [](lock = "render" => ~InBatch)
    /\ [][Capture =>
            /\ ~InBatch /\ ~InBatch'
            /\ snapshot' = segments /\ lastSegments' = segments
            /\ frame'.segs = segments
            /\ segments' = segments]_vars
    /\ [][(snapshot' # snapshot \/ lastSegments' # lastSegments) => Capture]_vars
    /\ [][(InBatch /\ frame' # frame /\ frame'.kind # "none") =>
            /\ frame'.contended
            /\ frame'.segs = lastSegments
            /\ lastSegments' = lastSegments]_vars

\* The client has applied the first of the two entries of a message and
\* changed the segments; the frame drawn meanwhile shows the segments as
\* they were before the message.
C24_Witness ==
    /\ lock = "client" /\ pc = "msg_apply"
    /\ Len(preBatch.batch) = 2 /\ Len(batch) = 1
    /\ segments # preBatch.segments
    /\ frame.kind = "ticker" /\ frame.contended
    /\ frame.segs = preBatch.segments

\* A step that ends a session, completes the delay, or is a reference fetch
\* that fails.
SessionEnds == pc # "sleep" /\ pc' = "sleep"
DelayEnds   == pc = "sleep" /\ pc' # "sleep"
FetchFails  == pc = "fetch" /\ pc' = "connect"

\* C25: the end of a session (however it ends), the delay and a failed
\* reference fetch change no record and no segment; records and segments
\* change only in a store call the client makes for an open price of a
\* fetch result or for an entry of a ticker message.
C25_StoreSurvivesDisconnect ==
    /\ [][(SessionEnds \/ DelayEnds \/ FetchFails) =>
            UNCHANGED << prices, segments >>]_vars
    /\ [][(prices' # prices \/ segments' # segments) =>
            /\ pc \in {"fetch_apply", "msg_apply"} /\ lock = "client"
            /\ batch # << >> /\ Mutates(Head(batch))]_vars

\* Both instruments are still shown when the client is about to connect
\* again after the stream ended and MaxFailures failures in a row.
C25_Witness ==
    /\ pc = "connect"
    /\ ended = "stream_end"
    /\ failures = MaxFailures
    /\ Len(segments) = 4
    /\ prices[BTC].price > 0 /\ prices[ETH].price > 0

-----------------------------------------------------------------------------
(* The client alone, over a feed that also carries symbols that are not in  *)
(* the configured list (BTC/USD and ETH/USD are configured)                  *)

ForeignEntries ==
    { Entry(BTC, TRUE, One, FALSE, 0),
      Entry(SOL, TRUE, 2 * One, FALSE, 0),
      Entry(SOL, TRUE, One + 50000, TRUE, 50000),
      Entry(DOGE, TRUE, One, TRUE, 2 * One) }

ForeignItems ==
    PlainItems \cup { Text(TRUE, "ticker", TRUE, << e >>) : e \in ForeignEntries }
               \cup { Text(TRUE, "ticker", TRUE,
                           << Entry(SOL, TRUE, One, FALSE, 0),
                              Entry(ETH, TRUE, 2 * One, TRUE, One) >>) }

ForeignNext == Client(ForeignItems, FetchResults)

ForeignSpec == Init /\ [][ForeignNext]_vars

\* C26: an entry of a ticker message for a symbol that is not configured
\* gives the symbol a record holding the entry's price (and the reference
\* derived from its change, when positive) and leaves the segments as they
\* were; every instrument segment carries the icon of a configured
\* instrument that has a positive price, at most one segment each.
C26_UnconfiguredSymbol ==
    /\ [][(/\ pc = "msg_apply"
           /\ batch # << >>
           /\ batch' = Tail(batch)
           /\ HasSymbolAndLast(Head(batch))
           /\ Head(batch).symbol \notin Configured)
            => LET t == Head(batch)
               IN  /\ segments' = segments
                   /\ t.symbol \in DOMAIN prices'
                   /\ prices'[t.symbol].price = t.last
                   /\ (t.hasChange /\ t.last - t.change > 0) =>
                          prices'[t.symbol].open_24h = t.last - t.change
                   /\ \A s \in DOMAIN prices :
                          s # t.symbol => (s \in DOMAIN prices' /\ prices'[s] = prices[s])]_vars
    /\ [](\A i \in DOMAIN segments :
            ~IsSeparator(segments[i]) =>
                \E c \in DOMAIN coins :
                    /\ segments[i].icon = coins[c].icon
                    /\ Active(coins[c].symbol))
    /\ [](Len(InstrumentSegments) = Len(ActiveCoins))

\* SOL/USD and DOGE/USD, not configured, have records with positive prices,
\* SOL/USD with a reference derived from a change; the segments are those of
\* the two configured instruments.
C26_Witness ==
    /\ SOL \in DOMAIN prices /\ DOGE \in DOMAIN prices
    /\ prices[SOL] = [price |-> One + 50000, open_24h |-> One]
    /\ prices[DOGE].price > 0
    /\ Len(segments) = 4
    /\ Shown(BTC) /\ Shown(ETH)

\* C27: when read.next() reports the end of the stream, the client's only
\* step is to the delay; from the delay it gets to the next connect attempt,
\* having slept once and fetched the reference prices, and its events after
\* the end of the stream are, in order and once each, the delay, the
\* reference fetch, the connect attempt and the subscribe request.
C27_RestartAfterStreamEnd ==
    /\ [][(pc = "dispatch" /\ inbound.kind = "end" /\ pc' # pc) =>
            (pc' = "sleep" /\ ended' = "stream_end" /\ trail' = << >>)]_vars
    /\ [](ended = "stream_end" =>
            /\ pc \in {"sleep", "fetch", "fetch_lock", "fetch_apply", "connect",
                        "subscribe", "read", "dispatch"}
            /\ trail = SubSeq(ReconnectSequence, 1, Progress(pc)))
    /\ (pc = "sleep" /\ ended = "stream_end") ~>
            (pc = "connect" /\ ended = "stream_end" /\ trail = << "delay", "fetch" >>)

\* The session that followed the end of a stream has subscribed and is
\* reading.
C27_Witness ==
    /\ ended = "stream_end"
    /\ pc = "read"
    /\ trail = ReconnectSequence
    /\ failed = ""

====
